---------------------------- MODULE Spec2Model ----------------------------
(***************************************************************************)
(* Model of the policy-pilot insurance assistant.                          *)
(*                                                                         *)
(*   src/app.py                 main(): one Streamlit script run           *)
(*   src/utils.py               session-state initialisation, API key      *)
(*   src/document_processor.py  DocumentProcessor (chunking, Chroma index) *)
(*   src/rag_engine.py          RAGEngine (memory, adaptive MMR, QA chain) *)
(*                                                                         *)
(* Text is a sequence of one-character strings, so that split(), lower()   *)
(* and the substring test are computed rather than assumed.  Fractions     *)
(* (lambda_mult, filter_similarity) are kept in hundredths.                *)
(***************************************************************************)
EXTENDS Integers, Sequences, FiniteSets, TLC

VARIABLES
    apiKey,          \* os.getenv("OPENAI_API_KEY") is set
    session,         \* st.session_state: vector_store, uploaded_files, chat_history
    disk,            \* the chroma_db persist directory and its collection
    uploader,        \* the files currently held by the st.file_uploader widget
    rendered,        \* the widgets the last script run put on the page
    pendingRerun,    \* st.rerun() was called: the script runs again at once
    engine,          \* the RAGEngine instance (rag_engine) most recently built
    lastRun,         \* what the last script run did (report, calls, ingestion)
    lastAsk,         \* what the last process_query call did
    historyOut,      \* the value last returned by get_chat_history
    probe            \* input and result of a direct _get_mmr_search_params call

vars == <<apiKey, session, disk, uploader, rendered, pendingRerun, engine,
          lastRun, lastAsk, historyOut, probe>>

None == "None"

(***************************************************************************)
(* Bounds of the model.                                                    *)
(***************************************************************************)
MaxWords == 17       \* longest probe query, in words
MaxTurns == 6        \* process_query calls on one RAGEngine
MaxChat == 2         \* queries kept in one session's chat history
MaxUploader == 2     \* files held by the uploader at once
MaxChunks == 5       \* chunks in the persisted collection

(***************************************************************************)
(* Text                                                                    *)
(***************************************************************************)
Space == " "
Newline == "\n"

IsSpace(c) == c \in {Space, Newline}

\* str.lower() on the characters the model's texts are written with
LowerChar(c) ==
    CASE c = "C" -> "c" [] c = "O" -> "o" [] c = "M" -> "m" [] c = "P" -> "p"
      [] c = "A" -> "a" [] c = "R" -> "r" [] c = "E" -> "e" [] c = "D" -> "d"
      [] c = "I" -> "i" [] c = "F" -> "f" [] c = "N" -> "n"
      [] OTHER -> c

Lower(s) == [i \in 1..Len(s) |-> LowerChar(s[i])]

\* len(s.split()): the maximal runs of non-whitespace characters
WordCount(s) ==
    Cardinality({i \in 1..Len(s) : ~IsSpace(s[i]) /\ (i = 1 \/ IsSpace(s[i-1]))})

\* pat in s
Contains(s, pat) ==
    \E i \in 1..(Len(s) - Len(pat) + 1) : SubSeq(s, i, i + Len(pat) - 1) = pat

RECURSIVE Join(_, _)
Join(words, sep) ==
    IF words = <<>> THEN <<>>
    ELSE IF Len(words) = 1 THEN words[1]
    ELSE words[1] \o sep \o Join(Tail(words), sep)

kwCompare == <<"c","o","m","p","a","r","e">>
kwDifference == <<"d","i","f","f","e","r","e","n","c","e">>

(***************************************************************************)
(* RAGEngine._get_mmr_search_params                                        *)
(***************************************************************************)
DefaultParams == [k |-> 3, fetch_k |-> 5, lambda_mult |-> 70, filter_similarity |-> 85]

\* dict.update: the keys of upd replace those of params
Update(params, upd) ==
    [key \in DOMAIN params |-> IF key \in DOMAIN upd THEN upd[key] ELSE params[key]]

IsComplex_noteq(query) == WordCount(query) >= 15

IsComplex(query) == WordCount(query) > 15

IsComparison(query) ==
    Contains(Lower(query), kwCompare) \/ Contains(Lower(query), kwDifference)

_get_mmr_search_params(query) ==
    IF IsComplex(query)
    THEN Update(DefaultParams, [k |-> 4, fetch_k |-> 8, lambda_mult |-> 60])
    ELSE IF IsComparison(query)
    THEN Update(DefaultParams, [k |-> 4, fetch_k |-> 6, lambda_mult |-> 50])
    ELSE DefaultParams

(***************************************************************************)
(* The texts the query specifications use.                                 *)
(***************************************************************************)
wA == <<"a">>
wAnd == <<"a","n","d">>
wCost == <<"c","o","s","t">>
wDental == <<"d","e","n","t","a","l">>
wCompareCap == <<"C","o","m","p","a","r","e">>
wPlans == <<"p","l","a","n","s">>

qFollowUp == Join(<<wAnd, wCost>>, <<Space>>)                  \* "and cost"
qPlain == Join(<<wDental, wCost>>, <<Space>>)                  \* "dental cost"
qCompare == Join(<<wCompareCap, wPlans>>, <<Space>>)           \* "Compare plans"
qLong == Join([i \in 1..16 |-> wA], <<Space>>)                 \* sixteen words

Queries == {qFollowUp, qLong}                  \* what the user types
Standalones == {qPlain, qCompare, qLong}       \* what the condense step returns

aAnswer == <<"o","k">>
PleaseUpload ==
    <<"P","l","e","a","s","e"," ","u","p","l","o","a","d"," ","s","o","m","e"," ",
      "d","o","c","u","m","e","n","t","s"," ","f","i","r","s","t",".">>
placeholder == <<"p","l","a","c","e","h","o","l","d","e","r">>

(***************************************************************************)
(* The persisted Chroma collection: chunks held per source file name.      *)
(***************************************************************************)
Files == {"a.txt", "b.pdf", "bad.pdf"}

RECURSIVE SumOver(_, _)
SumOver(f, S) ==
    IF S = {} THEN 0
    ELSE LET x == CHOOSE y \in S : TRUE IN f[x] + SumOver(f, S \ {x})

\* vector_store._collection.count()
Count(collection) == SumOver(collection, DOMAIN collection)

EmptyCollection == [f \in Files |-> 0]

\* the handle st.session_state.vector_store holds once an index is open
Chroma == "Chroma"

Min(a, b) == IF a < b THEN a ELSE b

(***************************************************************************)
(* ConversationBufferWindowMemory(k=5, return_messages=True)               *)
(***************************************************************************)
K == 5

HumanMessage(text) == [type |-> "human", content |-> text]
AIMessage(text) == [type |-> "ai", content |-> text]

\* load_memory_variables: the last k exchanges, messages[-k*2:]
Window(messages) ==
    IF Len(messages) <= 2 * K THEN messages
    ELSE SubSeq(messages, Len(messages) - 2 * K + 1, Len(messages))

\* save_context: the exchange is appended to chat_memory.messages
save_context(messages, input, output) ==
    messages \o <<HumanMessage(input), AIMessage(output)>>

(***************************************************************************)
(* RAGEngine                                                               *)
(***************************************************************************)
NoEngine ==
    [status |-> "none", vector_store |-> None, messages |-> <<>>,
     search_kwargs |-> DefaultParams]

\* as_retriever(search_type="mmr", search_kwargs=...) on the vector store:
\* called on None it raises AttributeError
_create_qa_chain(vector_store) ==
    IF vector_store = None
    THEN [raised |-> TRUE, search_kwargs |-> DefaultParams]
    ELSE [raised |-> FALSE, search_kwargs |-> _get_mmr_search_params(placeholder)]

\* RAGEngine.__init__: a fresh, empty memory and the chain over vector_store
RAGEngine(vector_store) ==
    LET chain == _create_qa_chain(vector_store) IN
    IF chain.raised
    THEN [NoEngine EXCEPT !.status = "raised"]
    ELSE [status |-> "ready", vector_store |-> vector_store, messages |-> <<>>,
          search_kwargs |-> chain.search_kwargs]

\* RAGEngine.get_chat_history
RECURSIVE get_chat_history(_)
get_chat_history(messages) ==
    IF messages = <<>> THEN <<>>
    ELSE LET msg == Head(messages)
             rest == get_chat_history(Tail(messages)) IN
         IF msg.type = "human" THEN <<[role |-> "user", content |-> msg.content]>> \o rest
         ELSE IF msg.type = "ai"
         THEN <<[role |-> "assistant", content |-> msg.content]>> \o rest
         ELSE rest

\* What the language model and the embedding service do during one query:
\* the text the condense step returns, and which call (if any) fails.
Outcomes ==
    [standalone : Standalones, fails : {"none", "condense", "retrieve", "answer"}]

\* The search_kwargs the retriever is left with for this query
SearchKwargsFor_standalone(query, standalone) == _get_mmr_search_params(standalone)

SearchKwargsFor(query, standalone) == _get_mmr_search_params(query)

\* RAGEngine.process_query with the ConversationalRetrievalChain call it makes:
\* condense (only on a non-empty transcript), retrieve, answer, save_context.
process_query(e, query, o, collection) ==
    IF e.vector_store = None
    THEN [engine |-> e, raised |-> FALSE, answer |-> PleaseUpload, sources |-> 0,
          rewritten |-> FALSE, question |-> <<>>, retrieved |-> FALSE,
          failedAt |-> "none", embedCalls |-> 0, genCalls |-> 0]
    ELSE
    LET rewritten == Window(e.messages) # <<>>
        question == IF rewritten THEN o.standalone ELSE query
        kwargs == SearchKwargsFor(query, question)
        e1 == [e EXCEPT !.search_kwargs = kwargs]
        failed(retrieved, embeds, gens) ==
            [engine |-> e1, raised |-> TRUE, answer |-> <<>>, sources |-> 0,
             rewritten |-> rewritten, question |-> question, retrieved |-> retrieved,
             failedAt |-> o.fails, embedCalls |-> embeds, genCalls |-> gens]
        condenseCalls == IF rewritten THEN 1 ELSE 0
    IN  IF rewritten /\ o.fails = "condense"
        THEN [failed(FALSE, 0, 1) EXCEPT !.question = <<>>]
        ELSE IF o.fails = "retrieve" THEN failed(FALSE, 1, condenseCalls)
        ELSE IF o.fails = "answer" THEN failed(TRUE, 1, condenseCalls + 1)
        ELSE [engine |-> [e1 EXCEPT !.messages = save_context(@, query, aAnswer)],
              raised |-> FALSE, answer |-> aAnswer,
              sources |-> Min(Min(kwargs.k, kwargs.fetch_k), Count(collection)),
              rewritten |-> rewritten, question |-> question, retrieved |-> TRUE,
              failedAt |-> "none", embedCalls |-> 1, genCalls |-> condenseCalls + 1]

(***************************************************************************)
(* Idle values: the parts of the state a specification does not use.       *)
(***************************************************************************)
NoSession ==
    [init |-> FALSE, vector_store |-> None, uploaded_files |-> <<>>,
     chat_history |-> <<>>]

NoDisk == [exists |-> FALSE, readable |-> TRUE, collection |-> EmptyCollection]

\* report: "none", "config_error" (st.error of validate_api_key), "exception"
\* (an uncaught exception ended the run), "info" (the upload hint) or "ok".
\* cleared: the session was reset and the user has since neither changed the
\* uploader's selection nor submitted a query.
\* insertions: how often each file name's chunks were inserted into the index
\* in this session since its last reset.
NoRun ==
    [report |-> "none", cleared |-> FALSE,
     insertions |-> [f \in Files |-> 0], newFiles |-> <<>>,
     chunked |-> <<>>, loadFailed |-> FALSE, inserted |-> FALSE, created |-> FALSE,
     statsBefore |-> 0, added |-> 0, statsAfter |-> 0, embedCalls |-> 0,
     genCalls |-> 0]

NoAsk ==
    [status |-> "none", query |-> <<>>, rewritten |-> FALSE, question |-> <<>>,
     retrieved |-> FALSE, failedAt |-> "none", search_kwargs |-> DefaultParams,
     before |-> <<>>,
     answer |-> <<>>, sources |-> 0, embedCalls |-> 0, genCalls |-> 0, log |-> <<>>]

NoHistory == [called |-> FALSE, value |-> <<>>]

NoProbe ==
    [n |-> 0, p |-> 0, w |-> <<>>, sep |-> <<>>, query |-> <<>>, called |-> FALSE,
     params |-> DefaultParams]

\* the record of one process_query call, kept for the properties
AskRecord(e, query, r, log) ==
    [status |-> IF r.raised THEN "raised" ELSE "ok", query |-> query,
     rewritten |-> r.rewritten, question |-> r.question, retrieved |-> r.retrieved,
     failedAt |-> r.failedAt, search_kwargs |-> r.engine.search_kwargs, before |-> e.messages,
     answer |-> r.answer, sources |-> r.sources, embedCalls |-> r.embedCalls,
     genCalls |-> r.genCalls,
     log |-> IF r.raised \/ e.vector_store = None THEN log
             ELSE Append(log, <<query, r.answer>>)]

(***************************************************************************)
(* SpecParams: _get_mmr_search_params applied to generated query texts.    *)
(***************************************************************************)
wCompare == kwCompare
wCompareUp == <<"C","O","M","P","A","R","E">>
wDifferences == <<"D","i","f","f","e","r","e","n","c","e","s">>
wPrecompared == <<"p","r","e","c","o","m","p","a","r","e","d">>
wComparison == <<"c","o","m","p","a","r","i","s","o","n">>
wComPare == <<"c","o","m"," ","p","a","r","e">>
wDiffer == <<"d","i","f","f","e","r">>

\* words that hold a keyword, in some letter case
KeywordWords == {wCompare, wCompareCap, wCompareUp, wDifferences, wPrecompared}
PlainWords == {wComparison, wComPare, wDiffer, wCost}
Vocabulary == KeywordWords \cup PlainWords

Separators == {<<Space>>, <<Space, Newline>>}

\* n words, all "a" but the p-th, which is w (p = 0: none is)
QueryOf(n, p, w, sep) == Join([i \in 1..n |-> IF i = p THEN w ELSE wA], sep)

Probes ==
    {[NoProbe EXCEPT !.n = n, !.p = 0, !.query = QueryOf(n, 0, <<>>, <<Space>>)] :
        n \in 0..MaxWords}
    \cup
    {[NoProbe EXCEPT !.n = x[1], !.p = x[2], !.w = x[3], !.sep = x[4],
                     !.query = QueryOf(x[1], x[2], x[3], x[4])] :
        x \in {y \in (1..MaxWords) \X (1..MaxWords) \X Vocabulary \X Separators :
                 y[2] <= y[1]}}

Idle ==
    /\ apiKey = TRUE
    /\ session = NoSession
    /\ uploader = <<>>
    /\ rendered = {}
    /\ pendingRerun = FALSE
    /\ lastRun = NoRun

InitParams ==
    /\ Idle
    /\ disk = NoDisk
    /\ engine = NoEngine
    /\ lastAsk = NoAsk
    /\ historyOut = NoHistory
    /\ probe \in Probes

GetParams ==
    /\ ~probe.called
    /\ probe' = [probe EXCEPT !.called = TRUE,
                              !.params = _get_mmr_search_params(probe.query)]
    /\ UNCHANGED <<apiKey, session, disk, uploader, rendered, pendingRerun, engine,
                   lastRun, lastAsk, historyOut>>

NextParams == GetParams

SpecParams == InitParams /\ [][NextParams]_vars

(***************************************************************************)
(* SpecEngine: one RAGEngine object driven through its methods.            *)
(***************************************************************************)
SomeCollection == [EmptyCollection EXCEPT !["a.txt"] = 2, !["b.pdf"] = 1]

InitEngine ==
    /\ Idle
    /\ disk = [exists |-> TRUE, readable |-> TRUE, collection |-> SomeCollection]
    /\ engine = NoEngine
    /\ lastAsk = NoAsk
    /\ historyOut = NoHistory
    /\ probe = NoProbe

Construct(vector_store) ==
    /\ engine.status = "none"
    /\ engine' = RAGEngine(vector_store)
    /\ UNCHANGED <<apiKey, session, disk, uploader, rendered, pendingRerun,
                   lastRun, lastAsk, historyOut, probe>>

Ask(query, o) ==
    /\ engine.status = "ready"
    /\ Len(lastAsk.log) < MaxTurns
    /\ LET r == process_query(engine, query, o, disk.collection) IN
        /\ engine' = r.engine
        /\ lastAsk' = AskRecord(engine, query, r, lastAsk.log)
    /\ historyOut' = NoHistory
    /\ UNCHANGED <<apiKey, session, disk, uploader, rendered, pendingRerun,
                   lastRun, probe>>

GetHistory ==
    /\ engine.status = "ready"
    /\ historyOut' = [called |-> TRUE, value |-> get_chat_history(engine.messages)]
    /\ UNCHANGED <<apiKey, session, disk, uploader, rendered, pendingRerun, engine,
                   lastRun, lastAsk, probe>>

NextEngine ==
    \/ \E vector_store \in {None, Chroma} : Construct(vector_store)
    \/ \E query \in Queries, o \in Outcomes : Ask(query, o)
    \/ GetHistory

SpecEngine == InitEngine /\ [][NextEngine]_vars

(***************************************************************************)
(* Properties of the RAGEngine methods                                     *)
(***************************************************************************)
LastTurns(log, n) ==
    IF Len(log) <= n THEN log ELSE SubSeq(log, Len(log) - n + 1, Len(log))

RECURSIVE RoleTagged(_)
RoleTagged(log) ==
    IF log = <<>> THEN <<>>
    ELSE <<[role |-> "user", content |-> Head(log)[1]],
           [role |-> "assistant", content |-> Head(log)[2]]>> \o RoleTagged(Tail(log))

\* C1: after more than K successful process_query calls on one RAGEngine,
\* get_chat_history returns exactly the K most recent turns, oldest first,
\* as user/assistant messages; older turns are not returned.
C1_HistoryIsLastK ==
    (historyOut.called /\ Len(lastAsk.log) > K)
        => historyOut.value = RoleTagged(LastTurns(lastAsk.log, K))

\* C4: the search parameters the retriever uses for a query are those of the
\* standalone (rewritten) question.
C4_ParamsFromStandalone ==
    lastAsk.retrieved => lastAsk.search_kwargs = _get_mmr_search_params(lastAsk.question)

\* C4 (amended): the search parameters the retriever uses for a query are
\* those of the raw query text passed to process_query, also when the
\* condense step rewrote the question into one of another category.
C4_ParamsFromRawQuery ==
    lastAsk.retrieved => lastAsk.search_kwargs = _get_mmr_search_params(lastAsk.query)

\* a follow-up was rewritten into a question of another category and retrieved
C4_Witness ==
    /\ lastAsk.retrieved
    /\ lastAsk.rewritten
    /\ _get_mmr_search_params(lastAsk.question) # _get_mmr_search_params(lastAsk.query)

\* C5: the parameters are decided by the first rule that applies: more than
\* 15 whitespace-separated words gives (4, 8, 0.6); otherwise 'compare' or
\* 'difference' in any letter case gives (4, 6, 0.5); otherwise (3, 5, 0.7).
\* The expected branch is computed from how the probe text was generated.
ProbeWords == IF probe.p > 0 /\ probe.w = wComPare THEN probe.n + 1 ELSE probe.n

ProbeHasKeyword == probe.p > 0 /\ probe.w \in KeywordWords

C5_ParamsTable ==
    probe.called =>
        LET got == <<probe.params.k, probe.params.fetch_k, probe.params.lambda_mult>> IN
        IF ProbeWords > 15 THEN got = <<4, 8, 60>>
        ELSE IF ProbeHasKeyword THEN got = <<4, 6, 50>>
        ELSE got = <<3, 5, 70>>

\* a query of more than 15 words that also holds a keyword has been served
C5_Witness ==
    /\ probe.called
    /\ ProbeWords > 15
    /\ ProbeHasKeyword
    /\ probe.params.fetch_k = 8

\* C8: a RAGEngine can be built for a session with no index, and its
\* process_query then returns the fixed message and no sources without
\* calling the embedding or generation service.
C8_IndexlessEngineAnswers ==
    /\ engine.status # "raised"
    /\ (lastAsk.status # "none" /\ engine.vector_store = None)
        => /\ lastAsk.answer = PleaseUpload
           /\ lastAsk.sources = 0
           /\ lastAsk.embedCalls = 0 /\ lastAsk.genCalls = 0

(***************************************************************************)
(* utils.py                                                                *)
(***************************************************************************)
\* init_session_state: keys that are absent get their defaults
init_session_state(s) ==
    IF s.init THEN s
    ELSE [init |-> TRUE, vector_store |-> None, uploaded_files |-> <<>>,
          chat_history |-> <<>>]

validate_api_key_always(key) == TRUE

\* validate_api_key: False (after st.error) when the variable is not set
validate_api_key(key) == key

\* format_sources: one entry per source document
format_sources(sources) == sources

(***************************************************************************)
(* DocumentProcessor                                                       *)
(***************************************************************************)
\* What the loader and the splitter make of each file: the number of chunks,
\* or -1 when loader.load() raises.
Splits ==
    [f \in Files |->
        CASE f = "a.txt" -> 2 [] f = "b.pdf" -> 1 [] OTHER -> -1]

\* DocumentProcessor.__init__: an existing chroma_db is opened when the
\* session has no store; a failure to open it leaves None
DocumentProcessor(s, d) ==
    IF d.exists /\ s.vector_store = None
    THEN [s EXCEPT !.vector_store = IF d.readable THEN Chroma ELSE None]
    ELSE s

\* DocumentProcessor.process_file: the chunks of one file, each carrying the
\* file's name as its source
process_file(name) ==
    IF Splits[name] < 0 THEN [raised |-> TRUE, splits |-> <<>>]
    ELSE [raised |-> FALSE, splits |-> [i \in 1..Splits[name] |-> name]]

Insert_replace(collection, new_documents) ==
    [f \in Files |-> Cardinality({i \in 1..Len(new_documents) : new_documents[i] = f})]

\* the chunks of new_documents added to those the collection holds
Insert(collection, new_documents) ==
    [f \in Files |->
        collection[f] + Cardinality({i \in 1..Len(new_documents) : new_documents[i] = f})]

\* DocumentProcessor.update_vector_store: Chroma.from_documents when the
\* session has no store (the directory is created, then the chunks are
\* embedded and added), add_documents otherwise; embeddings of the whole
\* batch are computed before anything is written
update_vector_store(s, d, new_documents, embedOk) ==
    IF s.vector_store = None /\ d.exists /\ ~d.readable
    THEN [raised |-> TRUE, vector_store |-> None, disk |-> d, embedCalls |-> 0]
    ELSE IF ~embedOk
    THEN [raised |-> TRUE, vector_store |-> None,
          disk |-> IF s.vector_store = None THEN [d EXCEPT !.exists = TRUE] ELSE d,
          embedCalls |-> 1]
    ELSE [raised |-> FALSE, vector_store |-> Chroma,
          disk |-> [d EXCEPT !.exists = TRUE,
                             !.collection = Insert(@, new_documents)],
          embedCalls |-> 1]

\* DocumentProcessor.get_document_stats, total_chunks
get_document_stats(vector_store, collection) ==
    IF vector_store = None THEN 0 ELSE Count(collection)

(***************************************************************************)
(* app.py: main(), one script run.  A run is a record threaded through the *)
(* steps of main(); stop is set when the run returns early, raises or      *)
(* calls st.rerun().                                                       *)
(***************************************************************************)
Names(files) == {files[i] : i \in 1..Len(files)}

\* lines 70-74: the files whose name is not in st.session_state.uploaded_files
\* are processed in the uploader's order; the first exception ends the loop
RECURSIVE ProcessNew(_, _)
ProcessNew(files, known) ==
    IF files = <<>> THEN [raised |-> FALSE, chunked |-> <<>>, all_splits |-> <<>>]
    ELSE IF Head(files) \in known THEN ProcessNew(Tail(files), known)
    ELSE LET one == process_file(Head(files)) IN
         IF one.raised THEN [raised |-> TRUE, chunked |-> <<>>, all_splits |-> <<>>]
         ELSE LET rest == ProcessNew(Tail(files), known) IN
              [raised |-> rest.raised, chunked |-> <<Head(files)>> \o rest.chunked,
               all_splits |-> one.splits \o rest.all_splits]

Start(event, cleared, insertions) ==
    [session |-> init_session_state(session), disk |-> disk,
     run |-> [NoRun EXCEPT !.cleared = cleared, !.insertions = insertions],
     engine |-> NoEngine, ask |-> NoAsk, rendered |-> {}, rerun |-> FALSE,
     stop |-> FALSE]

\* lines 48-57
Configure(c) ==
    IF ~validate_api_key(apiKey)
    THEN [c EXCEPT !.run.report = "config_error", !.stop = TRUE]
    ELSE [c EXCEPT !.session = DocumentProcessor(c.session, c.disk)]

\* lines 59-79
Sidebar(c, uploaded_files, embedOk) ==
    IF c.stop THEN c
    ELSE
    LET c1 == [c EXCEPT !.rendered = @ \cup {"uploader"}]
        known == Names(c.session.uploaded_files)
        loop == ProcessNew(uploaded_files, known)
        c2 == [c1 EXCEPT !.run.newFiles = SelectSeq(uploaded_files, LAMBDA f : f \notin known),
                         !.run.chunked = loop.chunked]
    IN  IF uploaded_files = <<>> THEN c1
        ELSE IF loop.raised
        THEN [c2 EXCEPT !.run.loadFailed = TRUE, !.run.report = "exception",
                        !.stop = TRUE]
        ELSE IF loop.all_splits = <<>> THEN c2
        ELSE LET before == get_document_stats(c.session.vector_store, c.disk.collection)
                 u == update_vector_store(c.session, c.disk, loop.all_splits, embedOk)
             IN  IF u.raised
                 THEN [c2 EXCEPT !.disk = u.disk, !.run.embedCalls = u.embedCalls,
                                 !.run.report = "exception", !.stop = TRUE]
                 ELSE [c2 EXCEPT !.disk = u.disk,
                                 !.session.vector_store = u.vector_store,
                                 !.session.uploaded_files = uploaded_files,
                                 !.run.embedCalls = u.embedCalls,
                                 !.run.inserted = TRUE,
                                 !.run.insertions =
                                     [f \in Files |->
                                         @[f] + (IF \E i \in 1..Len(loop.chunked) :
                                                        loop.chunked[i] = f
                                                 THEN 1 ELSE 0)],
                                 !.run.created = (c.session.vector_store = None),
                                 !.run.statsBefore = before,
                                 !.run.added = Len(loop.all_splits)]

\* lines 80-94.  vector_store._client.reset() empties the collection and
\* keeps the directory; it raises when the Chroma client's settings do not
\* allow a reset.
Statistics(c, clear, resetOk) ==
    IF c.stop \/ c.session.vector_store = None THEN c
    ELSE
    LET c1 == [c EXCEPT !.rendered = @ \cup {"clear"},
                        !.run.statsAfter =
                            get_document_stats(c.session.vector_store, c.disk.collection)]
    IN  IF ~clear THEN c1
        ELSE IF ~resetOk THEN [c1 EXCEPT !.run.report = "exception", !.stop = TRUE]
        ELSE [c1 EXCEPT !.disk.collection = EmptyCollection,
                        !.session.vector_store = None,
                        !.session.uploaded_files = <<>>,
                        !.session.chat_history = <<>>,
                        !.run.cleared = TRUE,
                        !.run.insertions = [f \in Files |-> 0],
                        !.rerun = TRUE, !.stop = TRUE]

\* st.chat_input returned nothing in this run
NoQuery == <<>>

\* lines 95-122
Chat(c, query, o) ==
    IF c.stop THEN c
    ELSE IF c.session.vector_store = None THEN [c EXCEPT !.run.report = "info"]
    ELSE
    LET rag_engine == RAGEngine(c.session.vector_store)
        c1 == [c EXCEPT !.engine = rag_engine, !.rendered = @ \cup {"chat_input"},
                        !.run.report = "ok"]
        asked == [c1 EXCEPT !.session.chat_history =
                                Append(@, [role |-> "user", content |-> query])]
        r == process_query(rag_engine, query, o, c.disk.collection)
        c2 == [asked EXCEPT !.engine = r.engine,
                            !.ask = AskRecord(rag_engine, query, r, <<>>),
                            !.run.embedCalls = @ + r.embedCalls,
                            !.run.genCalls = r.genCalls,
                            !.stop = TRUE]
    IN  IF query = NoQuery THEN c1
        ELSE IF r.raised THEN [c2 EXCEPT !.run.report = "exception"]
        ELSE [c2 EXCEPT !.session.chat_history =
                            Append(@, [role |-> "assistant", content |-> r.answer,
                                       sources |-> format_sources(r.sources)]),
                        !.rerun = TRUE]

\* main()
main(event, uploaded_files, clear, query, env) ==
    LET cleared == lastRun.cleared /\ event \notin {"upload", "query"} IN
    Chat(Statistics(Sidebar(Configure(Start(event, cleared, lastRun.insertions)),
                            uploaded_files, env.embedOk),
                    clear, env.resetOk),
         query, env.llm)

(***************************************************************************)
(* Spec: one browser session of the application.  Every step is one run of *)
(* main(), started by a page load or st.rerun(), by a change of the        *)
(* uploader's selection, by the Clear button or by a submitted question.   *)
(***************************************************************************)
\* what the uploader can hold: up to MaxUploader files of different names
Selections ==
    {files \in UNION {[1..n -> Files] : n \in 0..MaxUploader} :
        \A i, j \in 1..Len(files) : files[i] = files[j] => i = j}

NoFailure == [standalone |-> qPlain, fails |-> "none"]

\* in a session the question typed is a follow-up
AskEnvs ==
    [embedOk : BOOLEAN, resetOk : {TRUE},
     llm : [standalone : {qPlain}, fails : {"none", "condense", "retrieve", "answer"}]]
IngestEnvs == [embedOk : BOOLEAN, resetOk : {TRUE}, llm : {NoFailure}]
ClearEnvs == [embedOk : BOOLEAN, resetOk : BOOLEAN, llm : {NoFailure}]

OldCollection == [EmptyCollection EXCEPT !["a.txt"] = 2]

InitDisks ==
    {NoDisk,
     [exists |-> TRUE, readable |-> TRUE, collection |-> OldCollection],
     [exists |-> TRUE, readable |-> FALSE, collection |-> OldCollection]}

Init ==
    /\ apiKey \in BOOLEAN
    /\ session = NoSession
    /\ disk \in InitDisks
    /\ uploader = <<>>
    /\ rendered = {}
    /\ pendingRerun = FALSE
    /\ engine = NoEngine
    /\ lastRun = NoRun
    /\ lastAsk = NoAsk
    /\ historyOut = NoHistory
    /\ probe = NoProbe

\* the state a run of main() leaves behind
Finish(c) ==
    /\ Count(c.disk.collection) <= MaxChunks
    /\ session' = c.session
    /\ disk' = c.disk
    /\ rendered' = c.rendered
    /\ pendingRerun' = c.rerun
    /\ engine' = c.engine
    /\ lastRun' = c.run
    /\ lastAsk' = c.ask
    /\ UNCHANGED <<apiKey, historyOut, probe>>

\* a page load, or the run st.rerun() asked for: no widget changed
Rerun(env) ==
    /\ Finish(main("rerun", uploader, FALSE, NoQuery, env))
    /\ UNCHANGED uploader

\* the user adds files to or removes files from the uploader
Upload(files, env) ==
    /\ ~pendingRerun
    /\ "uploader" \in rendered
    /\ files # uploader
    /\ uploader' = files
    /\ Finish(main("upload", files, FALSE, NoQuery, env))

\* the user clicks "Clear All Documents"
Clear(env) ==
    /\ ~pendingRerun
    /\ "clear" \in rendered
    /\ Finish(main("clear", uploader, TRUE, NoQuery, env))
    /\ UNCHANGED uploader

\* the user submits a question
Query(query, env) ==
    /\ ~pendingRerun
    /\ "chat_input" \in rendered
    /\ Len(session.chat_history) < 2 * MaxChat
    /\ Finish(main("query", uploader, FALSE, query, env))
    /\ UNCHANGED uploader

Next ==
    \/ \E env \in IngestEnvs : Rerun(env)
    \/ \E files \in Selections, env \in IngestEnvs : Upload(files, env)
    \/ \E env \in ClearEnvs : Clear(env)
    \/ \E env \in AskEnvs : Query(qFollowUp, env)

Spec == Init /\ [][Next]_vars

(***************************************************************************)
(* Properties of a session                                                 *)
(***************************************************************************)
Answers(chat_history) ==
    Cardinality({i \in 1..Len(chat_history) : chat_history[i].role = "assistant"})

\* the questions of this session answered before the last process_query call
AnsweredBefore ==
    Answers(session.chat_history) - (IF lastAsk.status = "ok" THEN 1 ELSE 0)

\* C2: a query whose language-model call fails records nothing: the
\* engine's memory, the session's chat history and the index are as before
\* the query, and the chat input is there for the next query.
C2_FailedQueryLeavesNoTrace ==
    [][lastAsk'.failedAt \in {"condense", "answer"} =>
          /\ engine'.messages = lastAsk'.before
          /\ session'.chat_history = session.chat_history
          /\ (lastRun'.inserted \/ disk' = disk)
          /\ "chat_input" \in rendered']_vars

\* C3: once a question of the session has been answered, the next question
\* finds the earlier turn in the conversation memory and is rewritten into a
\* standalone question before retrieval.
C3_FollowUpIsRewritten ==
    (lastAsk.status # "none" /\ AnsweredBefore > 0)
        => /\ lastAsk.before # <<>>
           /\ lastAsk.retrieved => lastAsk.rewritten

\* C6: after "Clear All Documents", until the user changes the uploader's
\* selection or asks again, the session has no index or an index without
\* chunks, and its chat history is empty.
C6_NothingLeftAfterReset ==
    lastRun.cleared =>
        /\ get_document_stats(session.vector_store, disk.collection) = 0
        /\ session.chat_history = <<>>

RECURSIVE LoadableChunks(_)
LoadableChunks(files) ==
    IF files = <<>> THEN 0
    ELSE (IF Splits[Head(files)] < 0 THEN 0 ELSE Splits[Head(files)])
         + LoadableChunks(Tail(files))

\* C7: when one file of an uploaded batch fails to load, the chunks of the
\* other new files of the batch are still inserted into the index.
C7_OtherFilesStillIngested ==
    lastRun.loadFailed => lastRun.added = LoadableChunks(lastRun.newFiles)

\* C9: a successful update_vector_store of a non-empty chunk list makes the
\* chunk count reported afterwards equal to the count before plus the number
\* of chunks added; the count before is 0 when the index was created by it.
C9_StatsGrowByAdded ==
    lastRun.inserted =>
        /\ lastRun.added > 0
        /\ lastRun.statsAfter = lastRun.statsBefore + lastRun.added
        /\ lastRun.created => lastRun.statsBefore = 0

\* chunks were added to an index that already held some
C9_Witness ==
    /\ lastRun.inserted
    /\ ~lastRun.created
    /\ lastRun.statsBefore > 0
    /\ lastRun.statsAfter > lastRun.statsBefore

\* C10: without the credential no run of main() chunks a document, opens,
\* creates or changes an index, calls the embedding or generation service or
\* changes the session's index, file list or chat history; the run reports a
\* configuration error, which is not the report of a failed service call.
C10_NoCredentialNoOperation ==
    [][~apiKey =>
          /\ session'.vector_store = session.vector_store
          /\ session'.uploaded_files = session.uploaded_files
          /\ session'.chat_history = session.chat_history
          /\ disk' = disk
          /\ lastRun'.chunked = <<>> /\ ~lastRun'.inserted
          /\ lastRun'.embedCalls = 0 /\ lastRun'.genCalls = 0
          /\ lastAsk' = NoAsk /\ engine' = NoEngine
          /\ lastRun'.report = "config_error"]_vars

\* a run without the credential, beside a persisted index it did not open
C10_Witness ==
    /\ ~apiKey
    /\ lastRun.report = "config_error"
    /\ disk.exists /\ Count(disk.collection) > 0
    /\ session.init /\ session.vector_store = None

\* C11: between two resets of a session, the chunks of a file name are
\* inserted into the index at most once, whatever reruns, queries and changes
\* of the uploader's selection occur.
C11_NameInsertedAtMostOnce ==
    \A f \in Files : lastRun.insertions[f] <= 1

=============================================================================
